---------------------------- MODULE Spec2Model ----------------------------
(***************************************************************************)
(* A model of s3_dal: an append-only log kept as one object per record in  *)
(* an S3 namespace.  A handle (S3DAL) caches the last offset it knows of;  *)
(* Append installs the next record with a conditional PutObject, Read      *)
(* fetches and validates one record, LastRecord lists the namespace and    *)
(* reads the record under the last key listed.                             *)
(*                                                                         *)
(* Numbers keep the widths of the code.  TLC's integers are 32 bits wide,  *)
(* so a uint64 is a tuple of four 16-bit limbs, most significant first,    *)
(* with the arithmetic of the code (wrapping addition, comparison)         *)
(* computed limb by limb; a uint16 and a byte are plain integers.  A Go    *)
(* string and a []byte are sequences of byte values.                       *)
(***************************************************************************)
EXTENDS Integers, Sequences, FiniteSets, TLC

(***************************************************************************)
(* uint64                                                                  *)
(***************************************************************************)
LimbBase == 65536

\* The uint64 of a small natural number (n < 2^31).
U64(n) == <<0, 0, n \div LimbBase, n % LimbBase>>

MaxU64 == <<LimbBase - 1, LimbBase - 1, LimbBase - 1, LimbBase - 1>>

\* a + b over the naturals: the low 64 bits and the carry out of bit 63.
AddWide(a, b) ==
    LET s4 == a[4] + b[4]
        s3 == a[3] + b[3] + (s4 \div LimbBase)
        s2 == a[2] + b[2] + (s3 \div LimbBase)
        s1 == a[1] + b[1] + (s2 \div LimbBase)
    IN  [low   |-> <<s1 % LimbBase, s2 % LimbBase, s3 % LimbBase, s4 % LimbBase>>,
         carry |-> s1 \div LimbBase]

\* Go's + on uint64: the sum modulo 2^64.
AddU64(a, b) == AddWide(a, b).low

\* Go's < on uint64.
LtU64(a, b) ==
    \E i \in 1..4 : a[i] < b[i] /\ \A j \in 1..(i - 1) : a[j] = b[j]

GtU64(a, b) == LtU64(b, a)

\* x * 10 + d over the naturals: the low 64 bits and what overflows them.
MulAdd10(x, d) ==
    LET t4 == x[4] * 10 + d
        t3 == x[3] * 10 + (t4 \div LimbBase)
        t2 == x[2] * 10 + (t3 \div LimbBase)
        t1 == x[1] * 10 + (t2 \div LimbBase)
    IN  [low   |-> <<t1 % LimbBase, t2 % LimbBase, t3 % LimbBase, t4 % LimbBase>>,
         carry |-> t1 \div LimbBase]

\* x divided by 10: quotient and remainder.
DivMod10(x) ==
    LET t1 == x[1]
        t2 == (t1 % 10) * LimbBase + x[2]
        t3 == (t2 % 10) * LimbBase + x[3]
        t4 == (t3 % 10) * LimbBase + x[4]
    IN  [q |-> <<t1 \div 10, t2 \div 10, t3 \div 10, t4 \div 10>>,
         r |-> t4 % 10]

(***************************************************************************)
(* uint16 and bytes                                                        *)
(***************************************************************************)
RECURSIVE XorBits(_, _, _)
XorBits(a, b, n) ==
    IF n = 0 THEN 0
    ELSE (((a % 2) + (b % 2)) % 2) + 2 * XorBits(a \div 2, b \div 2, n - 1)

\* ^ on 4-bit values, tabulated once: entry 16 * a + b + 1 is a ^ b.
XorNibble == <<>> \o [k \in 1..256 |-> XorBits((k - 1) \div 16, (k - 1) % 16, 4)]

\* A faulty variant of Xor16: the left operand.
Xor16Left(a, b) == a

\* Go's ^ on uint16, nibble by nibble.
Xor16(a, b) ==
      XorNibble[16 * (a % 16) + (b % 16) + 1]
    + 16 * XorNibble[16 * ((a \div 16) % 16) + ((b \div 16) % 16) + 1]
    + 256 * XorNibble[16 * ((a \div 256) % 16) + ((b \div 256) % 16) + 1]
    + 4096 * XorNibble[16 * (a \div 4096) + (b \div 4096) + 1]

\* Go's << 1 on uint16.
Shl16(a) == (a * 2) % 65536

\* binary.Write(buf, binary.BigEndian, v) of a uint64: 8 bytes.
\* A faulty variant of PutUint64: the limbs in little-endian order.
PutUint64LE(v) ==
    <<v[4] % 256, v[4] \div 256, v[3] % 256, v[3] \div 256,
      v[2] % 256, v[2] \div 256, v[1] % 256, v[1] \div 256>>

PutUint64(v) ==
    <<v[1] \div 256, v[1] % 256, v[2] \div 256, v[2] % 256,
      v[3] \div 256, v[3] % 256, v[4] \div 256, v[4] % 256>>

\* binary.Read(r, binary.BigEndian, &v) of a uint64 from 8 bytes.
Uint64(b) ==
    <<b[1] * 256 + b[2], b[3] * 256 + b[4], b[5] * 256 + b[6], b[7] * 256 + b[8]>>

\* A faulty variant of PutUint16: the low byte first.
PutUint16LE(v) == <<v % 256, v \div 256>>

\* binary.Write(buf, binary.BigEndian, v) of a uint16: 2 bytes.
PutUint16(v) == <<v \div 256, v % 256>>

\* binary.BigEndian.Uint16(b).
Uint16(b) == b[1] * 256 + b[2]

(***************************************************************************)
(* Keys                                                                    *)
(***************************************************************************)
Slash == 47        \* '/'
Zero  == 48        \* '0'
KeyWidth == 20     \* the width of %020d

\* The prefix of the one namespace of the model: "w".
Prefix == <<119>>

\* The decimal digits of x, most significant first, without leading zeros
\* ("0" for zero): fmt's %d.
RECURSIVE DecDigits(_)
DecDigits(x) ==
    LET dm == DivMod10(x)
    IN  IF dm.q = U64(0) THEN <<Zero + dm.r>>
        ELSE Append(DecDigits(dm.q), Zero + dm.r)

\* A faulty variant of ZeroPad: no padding.
ZeroPadNone(s, n) == s

\* Left padding with '0' to at least n characters: fmt's 0 flag and width.
ZeroPad(s, n) == IF Len(s) >= n THEN s ELSE [i \in 1..(n - Len(s)) |-> Zero] \o s

\* fmt.Sprintf("%020d", offset)
Sprintf020d(offset) == ZeroPad(DecDigits(offset), KeyWidth)

\* S3DAL.getObjectKey on a handle whose prefix is prefix.
ObjectKeyOf(prefix, offset) == prefix \o <<Slash>> \o Sprintf020d(offset)

\* S3DAL.getObjectKey
getObjectKey(offset) == ObjectKeyOf(Prefix, offset)

\* strconv.ParseUint(s, 10, 64): the value, or a syntax error (empty, or a
\* character that is no decimal digit), or a range error (beyond 2^64 - 1).
RECURSIVE ParseDigits(_, _, _)
ParseDigits(s, i, acc) ==
    IF i > Len(s) THEN [err |-> "nil", val |-> acc]
    ELSE IF s[i] < Zero \/ s[i] > Zero + 9 THEN [err |-> "ErrSyntax", val |-> U64(0)]
    ELSE LET m == MulAdd10(acc, s[i] - Zero)
         IN  IF m.carry # 0 THEN [err |-> "ErrRange", val |-> MaxU64]
             ELSE ParseDigits(s, i + 1, m.low)

ParseUint(s) ==
    IF Len(s) = 0 THEN [err |-> "ErrSyntax", val |-> U64(0)]
    ELSE ParseDigits(s, 1, U64(0))

\* A faulty variant of OffsetFromKeyOf: the prefix and the "/" are not
\* skipped.
OffsetFromKeyWhole(prefix, key) == ParseUint(key)

\* S3DAL.getOffsetFromKey on a handle whose prefix is prefix: skips the prefix
\* and the "/".
OffsetFromKeyOf(prefix, key) == ParseUint(SubSeq(key, Len(prefix) + 2, Len(key)))

\* S3DAL.getOffsetFromKey
getOffsetFromKey(key) == OffsetFromKeyOf(Prefix, key)

\* Go's < on strings: bytewise lexicographic, a proper prefix first.
RECURSIVE StrLessFrom(_, _, _)
StrLessFrom(a, b, i) ==
    IF i > Len(a) THEN i <= Len(b)
    ELSE IF i > Len(b) THEN FALSE
    ELSE IF a[i] # b[i] THEN a[i] < b[i]
    ELSE StrLessFrom(a, b, i + 1)

StrLess(a, b) == StrLessFrom(a, b, 1)

(***************************************************************************)
(* Checksum and frame                                                      *)
(***************************************************************************)
Polynomial == 4129     \* 0x1021
CrcInit    == 51914    \* 0xCACA

\* The inner loop of crc16Fast: n shift steps.
RECURSIVE CrcShift(_, _)
CrcShift(crc, n) ==
    IF n = 0 THEN crc
    ELSE CrcShift(IF crc >= 32768 THEN Xor16(Shl16(crc), Polynomial) ELSE Shl16(crc),
                  n - 1)

\* The inner loop run to its end (8 steps), tabulated once for every uint16:
\* entry crc + 1 is for crc.
CrcShift8 == <<>> \o [k \in 1..65536 |-> CrcShift(k - 1, 8)]

\* The outer loop of crc16Fast from byte i on.
RECURSIVE CrcFrom(_, _, _)
CrcFrom(data, i, crc) ==
    IF i > Len(data) THEN crc
    ELSE CrcFrom(data, i + 1, CrcShift8[Xor16(crc, data[i] * 256) + 1])

crc16Fast(data) == CrcFrom(data, 1, CrcInit)

\* A faulty variant of validateChecksum: every frame passes.
validateChecksumAlways(data) == TRUE

validateChecksum(data) ==
    IF Len(data) < 2 THEN FALSE
    ELSE LET storedCRC  == Uint16(SubSeq(data, Len(data) - 1, Len(data)))
             recordData == SubSeq(data, 1, Len(data) - 2)
         IN  storedCRC = crc16Fast(recordData)

prepareBody(offset, data) ==
    LET buf == PutUint64(offset) \o data
    IN  buf \o PutUint16(crc16Fast(buf))

(***************************************************************************)
(* Errors.  A Go error is the chain that fmt.Errorf's %w builds: the        *)
(* message of the outermost error first, the cause last; nil is <<>>.      *)
(***************************************************************************)
Nil == <<>>

\* fmt.Errorf(msg + ": %w", cause)
\* A faulty variant of Errorf: the message alone, the cause dropped (%v for
\* %w, or a fixed message).
ErrorfOpaque(msg, cause) == <<msg>>

Errorf(msg, cause) == <<msg>> \o cause

\* What the store's client returns on a failed call.
PreconditionFailed == <<"PreconditionFailed">>   \* IfNoneMatch: the key exists
NoSuchKey          == <<"NoSuchKey">>            \* GetObject of an absent key
RequestFailed      == <<"RequestFailed">>        \* transport failure, cancellation

\* Record{}
ZeroRecord == [Offset |-> U64(0), Data |-> <<>>]

(***************************************************************************)
(* The object store, as the code uses it.  A store is a function from keys *)
(* to bodies.  fault is what the environment does to one call: "none",     *)
(* "fail" (the call fails and changes nothing) or, for a put, "lost" (the  *)
(* store executes the call and the response is lost).                      *)
(***************************************************************************)

\* PutObject without IfNoneMatch: an existing object is replaced.
PutObjectOverwrite(st, key, body, fault) ==
    IF fault = "fail" THEN [err |-> RequestFailed, store |-> st]
    ELSE [err   |-> IF fault = "lost" THEN RequestFailed ELSE Nil,
          store |-> [k \in DOMAIN st \cup {key} |-> IF k = key THEN body ELSE st[k]]]

\* client.PutObject with IfNoneMatch: "*".
PutObject(st, key, body, fault) ==
    IF fault = "fail" THEN [err |-> RequestFailed, store |-> st]
    ELSE IF key \in DOMAIN st
         THEN [err   |-> IF fault = "lost" THEN RequestFailed ELSE PreconditionFailed,
               store |-> st]
         ELSE [err   |-> IF fault = "lost" THEN RequestFailed ELSE Nil,
               store |-> [k \in DOMAIN st \cup {key} |->
                             IF k = key THEN body ELSE st[k]]]

\* client.GetObject followed by io.ReadAll of the body.
GetObject(st, key, fault) ==
    IF fault # "none" THEN [err |-> RequestFailed, body |-> <<>>]
    ELSE IF key \notin DOMAIN st THEN [err |-> NoSuchKey, body |-> <<>>]
    ELSE [err |-> Nil, body |-> st[key]]

HasPrefix(s, p) == Len(s) >= Len(p) /\ SubSeq(s, 1, Len(p)) = p

\* The keys of S in lexicographic order.
RECURSIVE SortKeys(_)
SortKeys(S) ==
    IF S = {} THEN <<>>
    ELSE LET least == CHOOSE k \in S : \A j \in S \ {k} : StrLess(k, j)
         IN  <<least>> \o SortKeys(S \ {least})

\* What a listing under prefix has left to return after the continuation
\* token (the last key returned so far, "" at the start), in the order of
\* ListObjectsV2.
Remaining(st, prefix, token) ==
    SortKeys({k \in DOMAIN st : HasPrefix(k, prefix) /\ StrLess(token, k)})

(***************************************************************************)
(* The operations' sequential code                                         *)
(***************************************************************************)
MinFrameLen == 10    \* 8 bytes of offset, 2 bytes of CRC16
OffsetLen   == 8

\* Append's check of the file size limit: w.length+newDataSize > fileSizeLimit,
\* in uint64 arithmetic.
SizeExceeded(length, data, fileSizeLimit) ==
    GtU64(AddU64(length, U64(Len(data))), fileSizeLimit)

ErrSizeLimit == <<"appending data would exceed the file size limit">>

\* A faulty variant of NextOffset: the length itself.
NextOffsetSame(length) == length

\* A faulty variant of NextOffset: one offset is left out.
NextOffsetSkip(length) == AddU64(length, U64(2))

\* nextOffset := w.length + 1
NextOffset(length) == AddU64(length, U64(1))

\* A faulty variant of AppendReturn: the error of the put is ignored.
AppendReturnBlind(length, nextOffset, putErr) ==
    [err |-> Nil, off |-> nextOffset, length |-> nextOffset]

\* A faulty variant of AppendReturn: w.length is advanced before the error of
\* the put is looked at.
AppendReturnAdvance(length, nextOffset, putErr) ==
    IF putErr # Nil
    THEN [err    |-> <<"failed to put object to S3">> \o putErr,
          off    |-> U64(0),
          length |-> nextOffset]
    ELSE [err |-> Nil, off |-> nextOffset, length |-> nextOffset]

\* Append after PutObject has returned putErr: the error, the offset
\* returned, and w.length.
AppendReturn(length, nextOffset, putErr) ==
    IF putErr # Nil
    THEN [err    |-> Errorf("failed to put object to S3", putErr),
          off    |-> U64(0),
          length |-> length]
    ELSE [err |-> Nil, off |-> nextOffset, length |-> nextOffset]

\* Read, given what GetObject and io.ReadAll return for the key of offset.
\* fault "body" is a GetObject that succeeds and a body that fails to read.
ReadOp(st, offset, fault) ==
    LET got  == GetObject(st, getObjectKey(offset), IF fault = "fail" THEN "fail" ELSE "none")
        data == got.body
    IN  IF got.err # Nil
        THEN [err |-> Errorf("failed to get object from S3", got.err), rec |-> ZeroRecord]
        ELSE IF fault = "body"
        THEN [err |-> Errorf("failed to read object body", RequestFailed), rec |-> ZeroRecord]
        ELSE IF Len(data) < MinFrameLen
        THEN [err |-> <<"invalid record: data too short">>, rec |-> ZeroRecord]
        ELSE LET storedOffset == Uint64(SubSeq(data, 1, OffsetLen))
             IN  IF storedOffset # offset
                 THEN [err |-> <<"offset mismatch">>, rec |-> ZeroRecord]
                 ELSE IF ~validateChecksum(data)
                 THEN [err |-> <<"CRC mismatch">>, rec |-> ZeroRecord]
                 ELSE [err |-> Nil,
                       rec |-> [Offset |-> storedOffset,
                                Data   |-> SubSeq(data, OffsetLen + 1, Len(data) - 2)]]

\* A faulty variant of LastKeyOf: the first key of the page.
LastKeyFirst(lastKey, page) ==
    IF Len(page) > 0 THEN page[1] ELSE lastKey

\* The body of LastRecord's loop: the last key of the page, if it has one.
LastKeyOf(lastKey, page) ==
    IF Len(page) > 0 THEN page[Len(page)] ELSE lastKey

\* A faulty variant of AfterListing: an empty listing resets w.length.
AfterListingReset(lastKey, length) ==
    IF lastKey = <<>>
    THEN [err |-> <<"WAL is empty">>, length |-> U64(0), read |-> FALSE]
    ELSE [err |-> Nil, length |-> getOffsetFromKey(lastKey).val, read |-> TRUE]

\* LastRecord after its loop, up to the call of Read: an error, or the
\* offset to read, which is also stored into w.length.
AfterListing(lastKey, length) ==
    IF lastKey = <<>>
    THEN [err |-> <<"WAL is empty">>, length |-> length, read |-> FALSE]
    ELSE LET parsed == getOffsetFromKey(lastKey)
         IN  IF parsed.err # "nil"
             THEN [err    |-> Errorf("failed to parse offset from key", <<parsed.err>>),
                   length |-> length, read |-> FALSE]
             ELSE [err |-> Nil, length |-> parsed.val, read |-> TRUE]

(***************************************************************************)
(* The system: handles of one namespace, each driven by one caller, and    *)
(* the store they share.  A step is one call to the store together with    *)
(* the handle's own code before and after it.  What a request returns is   *)
(* bound by \E over a singleton, which has it computed once.               *)
(***************************************************************************)
Handles == {"a", "b"}

\* Bound of the model: Append is called while the store holds fewer objects.
MaxObjects == 2

\* Inputs.
Payloads    == {<<>>, <<104, 105>>}
Limits      == {U64(2), U64(1000)}
ReadOffsets == {U64(i) : i \in 1..(MaxObjects + 1)}
Reliable    == {"none"}
PutFaults   == {"none", "fail", "lost"}
GetFaults   == {"none", "fail", "body"}
ListFaults  == {"none", "fail"}

ListPrefix == Prefix \o <<Slash>>

VARIABLES
    store,    \* the namespace: key -> body
    length,   \* S3DAL.length of each handle
    pc,       \* where each handle's caller is: "idle", or inside Append before
              \* its put ("put"), inside LastRecord's listing ("list") or
              \* before LastRecord's Read ("get")
    local,    \* the local variables of the call in progress
    ret,      \* the last call that returned: its handle, inputs and results
    hist      \* history: the puts the store executed, in order

vars == <<store, length, pc, local, ret, hist>>

NoCall == [op |-> "none"]

\* A returned call.  h, op, arg, err, off and rec are the call and what it
\* returned (arg is Append's data or Read's offset); the other fields are
\* history: w.length when Append or LastRecord was called (len), Append's
\* comparison of the size with the limit over the naturals (over), whether
\* the Append raced with the other handle's for a free offset (race), and
\* whether the store stayed as it was during a LastRecord (quiet).
Ret(h, op, arg, err, off, rec, aux) ==
    [h |-> h, op |-> op, arg |-> arg, err |-> err, off |-> off, rec |-> rec,
     len |-> aux.len, over |-> aux.over, race |-> aux.race, quiet |-> aux.quiet]

NoAux == [len |-> U64(0), over |-> FALSE, race |-> FALSE, quiet |-> FALSE]

NoRet == Ret("none", "none", <<>>, Nil, U64(0), ZeroRecord, NoAux)

Init ==
    /\ store  = <<>>
    /\ length = [h \in Handles |-> U64(0)]     \* S3DALClient
    /\ pc     = [h \in Handles |-> "idle"]
    /\ local  = [h \in Handles |-> NoCall]
    /\ ret    = NoRet
    /\ hist   = <<>>

\* length + len(data) > fileSizeLimit over the naturals.
OverLimit(len, data, fileSizeLimit) ==
    LET sum == AddWide(len, U64(Len(data)))
    IN  sum.carry # 0 \/ GtU64(sum.low, fileSizeLimit)

\* Append up to its call of PutObject: the size check and the next offset.
AppendCall(h, data, fileSizeLimit) ==
    /\ pc[h] = "idle"
    /\ Cardinality(DOMAIN store) < MaxObjects
    /\ LET nextOffset == NextOffset(length[h])
           over == OverLimit(length[h], data, fileSizeLimit)
           rivals == {g \in Handles \ {h} :
                         /\ pc[g] = "put"
                         /\ local[g].nextOffset = nextOffset
                         /\ getObjectKey(nextOffset) \notin DOMAIN store}
       IN  IF SizeExceeded(length[h], data, fileSizeLimit)
           THEN /\ ret' = Ret(h, "Append", data, ErrSizeLimit, U64(0), ZeroRecord,
                              [NoAux EXCEPT !.len = length[h], !.over = over])
                /\ UNCHANGED <<pc, local>>
           ELSE /\ pc' = [pc EXCEPT ![h] = "put"]
                /\ local' = [g \in Handles |->
                                IF g = h
                                THEN [op |-> "Append", data |-> data,
                                      nextOffset |-> nextOffset,
                                      over |-> over, race |-> rivals # {}]
                                ELSE IF g \in rivals
                                THEN [local[g] EXCEPT !.race = TRUE]
                                ELSE local[g]]
                /\ UNCHANGED ret
    /\ UNCHANGED <<store, length, hist>>

\* A LastRecord in progress on g does not see a quiet store once a put is
\* executed.
Disturb(g) ==
    IF local[g].op = "LastRecord" THEN [local[g] EXCEPT !.quiet = FALSE] ELSE local[g]

\* Append from prepareBody and PutObject to its return.
AppendPut(h, fault) ==
    /\ pc[h] = "put"
    /\ \E put \in {PutObject(store, getObjectKey(local[h].nextOffset),
                                prepareBody(local[h].nextOffset, local[h].data), fault)} :
       LET nextOffset == local[h].nextOffset
           r == AppendReturn(length[h], nextOffset, put.err)
           executed == put.store # store
       IN  /\ store' = put.store
           /\ length' = [length EXCEPT ![h] = r.length]
           /\ hist' = IF executed
                      THEN Append(hist, [off |-> nextOffset, data |-> local[h].data,
                                         by |-> IF put.err = Nil THEN h ELSE "lost"])
                      ELSE hist
           /\ ret' = Ret(h, "Append", local[h].data, r.err, r.off, ZeroRecord,
                         [NoAux EXCEPT !.len = length[h], !.over = local[h].over,
                                       !.race = local[h].race])
           /\ local' = [g \in Handles |->
                           IF g = h THEN NoCall
                           ELSE IF executed THEN Disturb(g) ELSE local[g]]
    /\ pc' = [pc EXCEPT ![h] = "idle"]

\* Read: one GetObject and the checks of what it returned.
Read(h, offset, fault) ==
    /\ pc[h] = "idle"
    /\ \E r \in {ReadOp(store, offset, fault)} :
           ret' = Ret(h, "Read", offset, r.err, U64(0), r.rec, NoAux)
    /\ UNCHANGED <<store, length, pc, local, hist>>

\* What LastRecord does with one page of its listing, the store having
\* returned the next n keys and said whether more follow: after the last page
\* LastRecord goes on to its return, or to its call of Read.
TakePage(h, cur, rem, n, more) ==
    LET page    == SubSeq(rem, 1, n)
        lastKey == LastKeyOf(cur.lastKey, page)
    IN  \E after \in {IF more THEN <<>> ELSE AfterListing(lastKey, length[h])} :
        IF more
        THEN /\ pc' = [pc EXCEPT ![h] = "list"]
             /\ local' = [local EXCEPT ![h] =
                             [cur EXCEPT !.lastKey = lastKey,
                                         !.token = IF n > 0 THEN page[n] ELSE @]]
             /\ UNCHANGED <<length, ret>>
        ELSE IF after.read
        THEN /\ pc' = [pc EXCEPT ![h] = "get"]
             /\ local' = [local EXCEPT ![h] =
                             [op |-> "LastRecord", offset |-> after.length,
                              len |-> cur.len, quiet |-> cur.quiet]]
             /\ length' = [length EXCEPT ![h] = after.length]
             /\ UNCHANGED ret
        ELSE /\ ret' = Ret(h, "LastRecord", <<>>, after.err, U64(0), ZeroRecord,
                           [NoAux EXCEPT !.len = cur.len, !.quiet = cur.quiet])
             /\ pc' = [pc EXCEPT ![h] = "idle"]
             /\ local' = [local EXCEPT ![h] = NoCall]
             /\ length' = [length EXCEPT ![h] = after.length]

\* One call of the listing's NextPage.  The store returns any number of the
\* keys that remain, in order, and says that more follow whenever it holds
\* keys back; a page may be empty.
LastRecordPage(h, fault) ==
    /\ pc[h] \in {"idle", "list"}
    /\ LET cur == IF pc[h] = "idle"
                  THEN [op |-> "LastRecord", lastKey |-> <<>>, token |-> <<>>,
                        len |-> length[h], quiet |-> TRUE]
                  ELSE local[h]
       IN  \E rem \in {Remaining(store, ListPrefix, cur.token)} :
           IF fault = "fail"
           THEN /\ ret' = Ret(h, "LastRecord", <<>>,
                              Errorf("failed to list objects from S3", RequestFailed),
                              U64(0), ZeroRecord,
                              [NoAux EXCEPT !.len = cur.len, !.quiet = cur.quiet])
                /\ pc' = [pc EXCEPT ![h] = "idle"]
                /\ local' = [local EXCEPT ![h] = NoCall]
                /\ UNCHANGED length
           ELSE \E n \in 0..Len(rem), more \in BOOLEAN :
                   /\ n < Len(rem) => more
                   /\ TakePage(h, cur, rem, n, more)
    /\ UNCHANGED <<store, hist>>

\* LastRecord's return w.Read(ctx, maxOffset).
LastRecordRead(h, fault) ==
    /\ pc[h] = "get"
    /\ \E r \in {ReadOp(store, local[h].offset, fault)} :
           ret' = Ret(h, "LastRecord", <<>>, r.err, U64(0), r.rec,
                      [NoAux EXCEPT !.len = local[h].len, !.quiet = local[h].quiet])
    /\ pc' = [pc EXCEPT ![h] = "idle"]
    /\ local' = [local EXCEPT ![h] = NoCall]
    /\ UNCHANGED <<store, length, hist>>

\* The steps of the callers in H, with their inputs and the faults of the
\* store drawn from the given sets.
Step(H, P, L, R, putFaults, getFaults, listFaults) ==
    \/ \E h \in H, data \in P, limit \in L : AppendCall(h, data, limit)
    \/ \E h \in H, fault \in putFaults : AppendPut(h, fault)
    \/ \E h \in H, offset \in R, fault \in getFaults : Read(h, offset, fault)
    \/ \E h \in H, fault \in listFaults : LastRecordPage(h, fault)
    \/ \E h \in H, fault \in getFaults : LastRecordRead(h, fault)

\* Two handles over a namespace that starts empty, the store answering every
\* request.
Next == Step(Handles, Payloads, Limits, ReadOffsets, Reliable, Reliable, Reliable)

Spec == Init /\ [][Next]_vars

\* One handle over a store whose requests may fail: a request is refused or
\* lost on the way ("fail"), a put is executed and its answer lost ("lost"),
\* the body of a get cannot be read ("body").
Solo == {"a"}

NextFaulty == Step(Solo, Payloads, Limits, ReadOffsets, PutFaults, GetFaults, ListFaults)

SpecFaulty == Init /\ [][NextFaulty]_vars

(***************************************************************************)
(* One handle over a namespace that other programs have written: the       *)
(* store starts with any one of a few objects, well-formed or not, and the *)
(* handle with a length it has kept from an earlier listing.               *)
(***************************************************************************)
Single(key, body) == [k \in {key} |-> body]

\* A frame with its last byte changed.
Corrupt(frame) == [frame EXCEPT ![Len(frame)] = (@ + 1) % 256]

\* Bodies found at the key of offset 1: the frames of offset 1 with an empty
\* payload (10 bytes) and with a payload, a frame cut to 9 bytes, the frame
\* of another offset, frames with a wrong checksum.
BodiesAtOne ==
    {prepareBody(U64(1), <<>>),
     prepareBody(U64(1), <<104, 105>>),
     SubSeq(prepareBody(U64(1), <<>>), 1, MinFrameLen - 1),
     SubSeq(prepareBody(U64(2), <<>>), 1, MinFrameLen - 1),
     prepareBody(U64(2), <<104, 105>>),
     Corrupt(prepareBody(U64(1), <<104, 105>>)),
     Corrupt(prepareBody(U64(2), <<104, 105>>))}

\* "x/1": a key of another prefix.
ForeignKey == <<120, Slash, Zero + 1>>

\* Keys under the prefix that getObjectKey does not produce: "w/5", "w/" and
\* 21 digits ("w/000000000000000000007"), "w/", "w/" and 19 digits and "x",
\* "w/99999999999999999999".
OddKeys ==
    {ListPrefix \o <<Zero + 5>>,
     ListPrefix \o [i \in 1..KeyWidth |-> Zero] \o <<Zero + 7>>,
     ListPrefix,
     ListPrefix \o [i \in 1..(KeyWidth - 1) |-> Zero] \o <<120>>,
     ListPrefix \o [i \in 1..KeyWidth |-> Zero + 9]}

InitStores ==
    {<<>>}
    \cup {Single(getObjectKey(U64(1)), body) : body \in BodiesAtOne}
    \cup {Single(getObjectKey(MaxU64), prepareBody(MaxU64, <<104, 105>>))}
    \cup {Single(ForeignKey, prepareBody(U64(1), <<>>))}
    \cup {Single(key, prepareBody(U64(5), <<104, 105>>)) : key \in OddKeys}

InitLengths == {U64(0), U64(3)}

OpenOffsets == ReadOffsets \cup {U64(0), MaxU64}

InitOpen ==
    /\ store \in InitStores
    /\ \E len \in InitLengths : length = [h \in Handles |-> len]
    /\ pc     = [h \in Handles |-> "idle"]
    /\ local  = [h \in Handles |-> NoCall]
    /\ ret    = NoRet
    /\ hist   = <<>>

NextOpen == Step(Solo, Payloads, Limits, OpenOffsets, Reliable, Reliable, Reliable)

SpecOpen == InitOpen /\ [][NextOpen]_vars

(***************************************************************************)
(* One handle over a store whose listing returns each key once and every   *)
(* page in order, but the pages in any order: the keys of a page are any   *)
(* of those not yet returned.                                              *)
(***************************************************************************)

\* One call of NextPage of such a listing, the page being the keys of S.
\* History: the keys still to come (rest), the greatest key returned so far
\* (top), whether every page so far began above the keys before it
\* (ordered), and the number of pages that held a key (pages).
LastRecordLoose(h) ==
    /\ pc[h] \in {"idle", "loose"}
    /\ LET cur == IF pc[h] = "idle"
                  THEN [op |-> "LastRecord", lastKey |-> <<>>,
                        rest |-> {k \in DOMAIN store : HasPrefix(k, ListPrefix)},
                        top |-> <<>>, ordered |-> TRUE, pages |-> 0,
                        len |-> length[h], quiet |-> TRUE]
                  ELSE local[h]
       IN  \E S \in SUBSET cur.rest, more \in BOOLEAN :
              /\ S # cur.rest => more
              /\ \E page \in {SortKeys(S)} :
                 LET lastKey == LastKeyOf(cur.lastKey, page)
                     top     == IF page # <<>> /\ StrLess(cur.top, page[Len(page)])
                                THEN page[Len(page)] ELSE cur.top
                     ordered == cur.ordered /\ (page = <<>> \/ StrLess(cur.top, page[1]))
                     pages   == cur.pages + (IF page = <<>> THEN 0 ELSE 1)
                 IN  IF more
                     THEN /\ pc' = [pc EXCEPT ![h] = "loose"]
                          /\ local' = [local EXCEPT ![h] =
                                          [cur EXCEPT !.lastKey = lastKey,
                                                      !.rest = cur.rest \ S,
                                                      !.top = top,
                                                      !.ordered = ordered,
                                                      !.pages = pages]]
                          /\ UNCHANGED <<length, ret>>
                     ELSE \E after \in {AfterListing(lastKey, length[h])} :
                          IF after.read
                          THEN /\ pc' = [pc EXCEPT ![h] = "get"]
                               /\ local' = [local EXCEPT ![h] =
                                               [op |-> "LastRecord",
                                                offset |-> after.length,
                                                len |-> cur.len, quiet |-> cur.quiet,
                                                top |-> top, ordered |-> ordered,
                                                pages |-> pages]]
                               /\ length' = [length EXCEPT ![h] = after.length]
                               /\ UNCHANGED ret
                          ELSE /\ ret' = Ret(h, "LastRecord", <<>>, after.err, U64(0),
                                             ZeroRecord,
                                             [NoAux EXCEPT !.len = cur.len,
                                                           !.quiet = cur.quiet])
                               /\ pc' = [pc EXCEPT ![h] = "idle"]
                               /\ local' = [local EXCEPT ![h] = NoCall]
                               /\ length' = [length EXCEPT ![h] = after.length]
    /\ UNCHANGED <<store, hist>>

NextLoose ==
    \/ Step(Solo, Payloads, Limits, ReadOffsets, Reliable, Reliable, Reliable)
    \/ \E h \in Solo : LastRecordLoose(h)

SpecLoose == Init /\ [][NextLoose]_vars

(***************************************************************************)
(* Two handles over a namespace that starts empty, the store executing or  *)
(* refusing a put and delivering or losing its answer.                     *)
(***************************************************************************)
LossyPayloads == {<<104, 105>>}
LossyLimits   == {U64(1000)}
LossyOffsets  == {U64(1)}

NextLossy == Step(Handles, LossyPayloads, LossyLimits, LossyOffsets, PutFaults, Reliable, Reliable)

SpecLossy == Init /\ [][NextLossy]_vars

\* The same two handles and inputs over a store that answers every request.
NextSteady == Step(Handles, LossyPayloads, LossyLimits, LossyOffsets, Reliable, Reliable, Reliable)

SpecSteady == Init /\ [][NextSteady]_vars

(***************************************************************************)
(* The key codec and the frame codec on their own: calls of getObjectKey   *)
(* and getOffsetFromKey on handles of several prefixes, and Read and       *)
(* validateChecksum on a frame of prepareBody with one bit changed.        *)
(***************************************************************************)

\* Offsets where the number of decimal digits, a limb or the width changes:
\* 0, 1, 9, 10, 99, 100, 65535, 65536, 2^32 - 1, 2^32, 10^19 - 1, 10^19,
\* 2^64 - 2, 2^64 - 1.
CodecOffsets ==
    {U64(0), U64(1), U64(9), U64(10), U64(99), U64(100), U64(65535), U64(65536),
     <<0, 0, 65535, 65535>>, <<0, 1, 0, 0>>,
     <<35527, 8964, 35303, 65535>>, <<35527, 8964, 35304, 0>>,
     <<65535, 65535, 65535, 65534>>, MaxU64}

\* Prefixes "w", "" and "a/1".
CodecPrefixes == {Prefix, <<>>, <<97, Slash, Zero + 1>>}

\* The keys of a and b under the prefix of the call, and what decoding them
\* returns.
EncodeDecode(h) ==
    /\ local[h].op = "keys"
    /\ LET prefix == local[h].prefix
           a      == local[h].a
           b      == local[h].b
       IN  ret' = [op |-> "keys", prefix |-> prefix, a |-> a, b |-> b,
                   ka |-> ObjectKeyOf(prefix, a), kb |-> ObjectKeyOf(prefix, b),
                   da |-> OffsetFromKeyOf(prefix, ObjectKeyOf(prefix, a)),
                   db |-> OffsetFromKeyOf(prefix, ObjectKeyOf(prefix, b))]
    /\ UNCHANGED <<store, length, pc, local, hist>>

FrameOffsets  == {U64(0), U64(1), <<1, 2, 3, 4>>, MaxU64}
FramePayloads == {<<>>, <<0>>, <<104, 105>>, <<255, 255, 255>>}
FrameBits     == 0..(8 * (MinFrameLen + 3) - 1)

RECURSIVE Pow2(_)
Pow2(k) == IF k = 0 THEN 1 ELSE 2 * Pow2(k - 1)

\* frame with bit i changed, bit 0 being the lowest bit of the first byte.
FlipBit(frame, i) ==
    LET n == (i \div 8) + 1
        p == Pow2(i % 8)
    IN  [frame EXCEPT ![n] = IF (@ \div p) % 2 = 1 THEN @ - p ELSE @ + p]

\* What Read returns for a body stored at the key of the offset the body
\* names in its first 8 bytes.
ReadAtOwnKey(body) ==
    LET offset == Uint64(SubSeq(body, 1, OffsetLen))
    IN  ReadOp(Single(getObjectKey(offset), body), offset, "none")

\* The frame of prepareBody and the frame with one bit changed, validated
\* and read.
FlipAndValidate(h) ==
    /\ local[h].op = "flip"
    /\ \E frame \in {prepareBody(local[h].offset, local[h].data)} :
       \E flipped \in {FlipBit(frame, local[h].bit)} :
          ret' = [op |-> "flip", offset |-> local[h].offset,
                  data |-> local[h].data, bit |-> local[h].bit,
                  frame |-> frame, flipped |-> flipped,
                  valid |-> validateChecksum(frame),
                  validFlipped |-> validateChecksum(flipped),
                  read |-> ReadAtOwnKey(frame),
                  readFlipped |-> ReadAtOwnKey(flipped),
                  readInPlace |-> ReadOp(Single(getObjectKey(local[h].offset), flipped),
                                         local[h].offset, "none")]
    /\ UNCHANGED <<store, length, pc, local, hist>>

\* The calls: two offsets under a prefix, or a bit of the frame of an offset
\* and a payload.
CodecCalls ==
    {[op |-> "keys", prefix |-> prefix, a |-> a, b |-> b] :
        prefix \in CodecPrefixes, a \in CodecOffsets, b \in CodecOffsets}
    \cup
    {c \in [op : {"flip"}, offset : FrameOffsets, data : FramePayloads, bit : FrameBits] :
        c.bit < 8 * (MinFrameLen + Len(c.data))}

InitCodec ==
    /\ store  = <<>>
    /\ length = [h \in Handles |-> U64(0)]
    /\ pc     = [h \in Handles |-> "idle"]
    /\ \E c \in CodecCalls : local = [h \in Handles |-> c]
    /\ ret    = NoRet
    /\ hist   = <<>>

NextCodec ==
    \/ \E h \in Solo : EncodeDecode(h)
    \/ \E h \in Solo : FlipAndValidate(h)

SpecCodec == InitCodec /\ [][NextCodec]_vars

(***************************************************************************)
(* Properties                                                              *)
(***************************************************************************)
\* The cause at the root of an error's chain, as errors.As finds it.
Root(err) == IF err = Nil THEN "nil" ELSE err[Len(err)]

IsConflict(err)         == Root(err) = "PreconditionFailed"
IsNotFound(err)         == Root(err) = "NoSuchKey"
IsStoreUnavailable(err) == Root(err) = "RequestFailed"

ErrEmptyLog        == <<"WAL is empty">>
ErrMalformedRecord == <<"invalid record: data too short">>
ErrOffsetMismatch  == <<"offset mismatch">>
ErrChecksum        == <<"CRC mismatch">>

\* The record Read returns for offset with payload data.
RecordOf(offset, data) == [Offset |-> offset, Data |-> data]

\* The puts the store executed at offset.
PutsAt(offset) == {i \in 1..Len(hist) : hist[i].off = offset}

\* C1: when two handles are inside Append at once with the same nextOffset,
\* the key being free, the store executes exactly one put at that offset and
\* holds that put's frame; the Append whose put it was returns the offset,
\* the other returns the Conflict of the conditional create.
RaceResolution ==
    (ret.op = "Append" /\ ret.race) =>
        LET next == NextOffset(ret.len)
            key  == getObjectKey(next)
        IN  /\ Cardinality(PutsAt(next)) = 1
            /\ key \in DOMAIN store
            /\ \A i \in PutsAt(next) :
                  /\ hist[i].by \in Handles
                  /\ store[key] = prepareBody(next, hist[i].data)
                  /\ IF hist[i].by = ret.h
                     THEN ret.err = Nil /\ ret.off = next /\ ret.arg = hist[i].data
                     ELSE IsConflict(ret.err) /\ ret.off = U64(0)

\* C1, reached: the loser of a race has returned Conflict, its payload being
\* another than the winner's, which the store holds.
RaceLost ==
    /\ ret.op = "Append" /\ ret.race /\ IsConflict(ret.err)
    /\ \E i \in PutsAt(NextOffset(ret.len)) :
          /\ hist[i].data # ret.arg
          /\ store[getObjectKey(hist[i].off)] = prepareBody(hist[i].off, hist[i].data)

\* Every put the store executed was h's, and h was told so.
SoleWriter(h) == \A i \in 1..Len(hist) : hist[i].by = h

\* C2: while one handle is the only writer of a log that started empty, its
\* i-th Append wrote at offset i and returned i, and Read(i) returns the
\* record of offset i with the i-th payload, for every i written so far.
SequentialAppends ==
    \A h \in Handles : SoleWriter(h) =>
        /\ \A i \in 1..Len(hist) :
              /\ hist[i].off = U64(i)
              /\ ReadOp(store, U64(i), "none")
                    = [err |-> Nil, rec |-> RecordOf(U64(i), hist[i].data)]
              /\ (ret.op = "Read" /\ ret.arg = U64(i)) =>
                    ret.err = Nil /\ ret.rec = RecordOf(U64(i), hist[i].data)
        /\ (ret.op = "Append" /\ ret.h = h /\ ret.err = Nil) =>
              /\ ret.off = U64(Len(hist))
              /\ ret.arg = hist[Len(hist)].data

\* C2, reached: after two Appends of different payloads by handle a alone,
\* Read(1) has returned the first.
SequentialRead ==
    /\ SoleWriter("a") /\ Len(hist) = 2
    /\ hist[1].data # hist[2].data
    /\ ret.op = "Read" /\ ret.arg = U64(1) /\ ret.err = Nil
    /\ ret.rec = RecordOf(U64(1), hist[1].data)

\* C3: a LastRecord during which the store executed no put, N >= 1 records
\* having been appended, returns what Read(N) returns, the record of offset
\* N with the payload of the N-th Append.
TailRecovery ==
    (ret.op = "LastRecord" /\ ret.quiet /\ Len(hist) >= 1) =>
        LET n == Len(hist)
        IN  /\ ret.err = Nil
            /\ ret.rec = ReadOp(store, U64(n), "none").rec
            /\ ret.rec = RecordOf(U64(n), hist[n].data)

\* C3, reached: a handle that has appended nothing and whose length was 0
\* has recovered the second of two records.
TailRecoveredFresh ==
    /\ ret.op = "LastRecord" /\ ret.quiet /\ ret.err = Nil
    /\ ret.len = U64(0)
    /\ Len(hist) = 2
    /\ \A i \in 1..Len(hist) : hist[i].by # ret.h
    /\ ret.rec = RecordOf(U64(2), hist[2].data)
    /\ hist[1].data # hist[2].data

\* C4: Append returns the size-limit error exactly when length + len(data)
\* exceeds fileSizeLimit, the sum taken over the naturals.
SizeBudget ==
    ret.op = "Append" => (ret.err = ErrSizeLimit <=> ret.over)

\* C5: an Append that has failed has left w.length as it was when it was
\* called; one that has succeeded has created the object of its frame at
\* nextOffset and has set w.length to nextOffset.
LengthOnlyOnSuccess ==
    (ret.op = "Append" /\ pc[ret.h] = "idle") =>
        LET next == NextOffset(ret.len)
            key  == getObjectKey(next)
        IN  IF ret.err = Nil
            THEN /\ length[ret.h] = next
                 /\ ret.off = next
                 /\ key \in DOMAIN store
                 /\ store[key] = prepareBody(next, ret.arg)
            ELSE length[ret.h] = ret.len

\* C5, reached: an Append has returned Conflict and the handle has its
\* length of before the call, which is behind the store.
ConflictKeepsLength ==
    /\ ret.op = "Append" /\ IsConflict(ret.err)
    /\ pc[ret.h] = "idle"
    /\ length[ret.h] = ret.len
    /\ getObjectKey(NextOffset(ret.len)) \in DOMAIN store

\* The errors Append, Read and LastRecord return, by kind.
AppendErrors(err) ==
    err = Nil \/ err = ErrSizeLimit \/ IsConflict(err) \/ IsStoreUnavailable(err)

ReadErrors(err) ==
    \/ err \in {Nil, ErrMalformedRecord, ErrOffsetMismatch, ErrChecksum}
    \/ IsNotFound(err)
    \/ IsStoreUnavailable(err)

\* C6: the error a call returns tells its cause.  An Append returns nil,
\* the size-limit error, a Conflict or a StoreUnavailable, and a Conflict
\* only when the key of its offset exists; a Read returns NotFound only for
\* an absent key, and for an absent key NotFound unless the request itself
\* failed; a LastRecord returns the empty-log error or what its listing or
\* its Read failed with.
DistinguishedKinds ==
    /\ ret.op = "Append" =>
          /\ AppendErrors(ret.err)
          /\ IsConflict(ret.err) => getObjectKey(NextOffset(ret.len)) \in DOMAIN store
    /\ ret.op = "Read" =>
          /\ ReadErrors(ret.err)
          /\ IsNotFound(ret.err) => getObjectKey(ret.arg) \notin DOMAIN store
          /\ getObjectKey(ret.arg) \notin DOMAIN store =>
                IsNotFound(ret.err) \/ IsStoreUnavailable(ret.err)
    /\ ret.op = "LastRecord" =>
          ret.err = ErrEmptyLog \/ ReadErrors(ret.err)

\* C6, reached: the key of its offset existing, an Append has returned
\* StoreUnavailable, not Conflict, because its request failed.
UnavailableNotConflict ==
    /\ ret.op = "Append" /\ IsStoreUnavailable(ret.err)
    /\ ~IsConflict(ret.err)
    /\ getObjectKey(NextOffset(ret.len)) \in DOMAIN store

\* C7: a Read of an offset at which an Append has returned success returns
\* the record of that offset with the appended payload.
ReadAfterAppend ==
    ret.op = "Read" =>
        \A i \in 1..Len(hist) :
            (hist[i].off = ret.arg /\ hist[i].by \in Handles) =>
                ret.err = Nil /\ ret.rec = RecordOf(ret.arg, hist[i].data)

\* C7, reached: with two records appended and the other handle inside a
\* call, a handle has read the first record, which it did not append.
ReadOthersRecord ==
    /\ ret.op = "Read" /\ ret.arg = U64(1) /\ ret.err = Nil
    /\ Len(hist) = 2
    /\ hist[1].by \in Handles \ {ret.h}
    /\ ret.rec = RecordOf(U64(1), hist[1].data)
    /\ \E h \in Handles : pc[h] # "idle"

\* C8: no step changes or removes an object of the store.
Immutable ==
    [][\A k \in DOMAIN store : k \in DOMAIN store' /\ store'[k] = store[k]]_vars

\* C8, reached: a handle whose length was 0 has appended, without a race,
\* another payload at offset 1, which was taken; the store holds the bytes
\* of before.
StaleAppendRejected ==
    /\ ret.op = "Append" /\ ~ret.race /\ ret.err # Nil /\ ret.err # ErrSizeLimit
    /\ ret.len = U64(0)
    /\ getObjectKey(U64(1)) \in DOMAIN store
    /\ store[getObjectKey(U64(1))] # prepareBody(U64(1), ret.arg)
    /\ store[getObjectKey(U64(1))] = prepareBody(U64(1), hist[1].data)

\* The frame Read(offset) has fetched, and its three checks.
LongEnough(frame)     == Len(frame) >= 10
OffsetOk(frame, off)  == Uint64(SubSeq(frame, 1, 8)) = off
ChecksumOk(frame)     ==
    Uint16(SubSeq(frame, Len(frame) - 1, Len(frame)))
        = crc16Fast(SubSeq(frame, 1, Len(frame) - 2))

\* C9: Read returns a record exactly when the key exists and its frame has
\* at least 10 bytes, the requested offset in its first 8 and the checksum
\* of what precedes in its last 2; the record is then the offset and the
\* bytes between.  It returns NotFound exactly when the key is absent, the
\* too-short, offset-mismatch and checksum errors only for a frame that
\* fails that check, and with any error the zero Record.
ReadChecks ==
    ret.op = "Read" =>
        LET key     == getObjectKey(ret.arg)
            present == key \in DOMAIN store
            frame   == store[key]
        IN  /\ ReadErrors(ret.err) /\ ~IsStoreUnavailable(ret.err)
            /\ IsNotFound(ret.err) <=> ~present
            /\ ret.err = Nil <=>
                  (present /\ LongEnough(frame) /\ OffsetOk(frame, ret.arg)
                     /\ ChecksumOk(frame))
            /\ ret.err = Nil =>
                  ret.rec = RecordOf(ret.arg, SubSeq(frame, 9, Len(frame) - 2))
            /\ ret.err # Nil => ret.rec = ZeroRecord
            /\ ret.err = ErrMalformedRecord => ~LongEnough(frame)
            /\ ret.err = ErrOffsetMismatch =>
                  LongEnough(frame) /\ ~OffsetOk(frame, ret.arg)
            /\ ret.err = ErrChecksum =>
                  LongEnough(frame) /\ ~ChecksumOk(frame)

\* C9, reached: Read has returned the record of a frame of exactly 10 bytes,
\* its payload empty.
EmptyPayloadRead ==
    /\ ret.op = "Read" /\ ret.err = Nil
    /\ getObjectKey(ret.arg) \in DOMAIN store
    /\ Len(store[getObjectKey(ret.arg)]) = 10
    /\ ret.rec = RecordOf(ret.arg, <<>>)

\* C10: while the store holds no key under the prefix, every LastRecord
\* that has returned has returned the empty-log error, and the handle has
\* the length it had when LastRecord was called.
EmptyLog ==
    (ret.op = "LastRecord" /\ Remaining(store, ListPrefix, <<>>) = <<>>) =>
        /\ ret.err = ErrEmptyLog
        /\ length[ret.h] = ret.len

\* C10, reached: the store holding a key of another prefix only, LastRecord
\* has returned the empty-log error on a handle of length 3.
EmptyLogKeepsLength ==
    /\ ret.op = "LastRecord" /\ ret.err = ErrEmptyLog
    /\ ForeignKey \in DOMAIN store
    /\ ret.len = U64(3)
    /\ length[ret.h] = U64(3)

\* A LastRecord of h that has listed pages in any order and is to read.
Listed(h) == pc[h] = "get" /\ "top" \in DOMAIN local[h]

\* C11, as the code has it: the key LastRecord decodes, stores into w.length
\* and reads is the last key of the last page that held one; it is the
\* greatest key of all pages when every page began above the keys of the
\* pages before it.
PagesLastKey ==
    \A h \in Handles : Listed(h) =>
        /\ length[h] = local[h].offset
        /\ local[h].ordered => getObjectKey(local[h].offset) = local[h].top

\* C11, as stated: however the pages are delivered, the key LastRecord
\* decodes is the greatest key of all pages.
PagesGreatestKey ==
    \A h \in Handles : Listed(h) =>
        getObjectKey(local[h].offset) = local[h].top

\* C11, reached: two pages that held a key, in order, and the key decoded is
\* the greatest.
PagesInOrder ==
    \E h \in Handles :
        /\ Listed(h)
        /\ local[h].ordered /\ local[h].pages = 2
        /\ getObjectKey(local[h].offset) = local[h].top
        /\ length[h] = U64(2)

\* C12: a call to the store that is cancelled returns the error of its
\* context, which is a request that fails ("fail", or for a put that the
\* store has executed, "lost").  An Append or a LastRecord that has returned
\* such an error has left w.length as it was when it was called.  (Read
\* assigns nothing.)
CancelKeepsLength ==
    (ret.op \in {"Append", "LastRecord"} /\ IsStoreUnavailable(ret.err)
        /\ pc[ret.h] = "idle") =>
            length[ret.h] = ret.len

\* C13: for every offset and every prefix, decoding the key of the offset
\* returns the offset and no error, and the keys of two offsets are equal
\* only if the offsets are.
KeyRoundTrip ==
    ret.op = "keys" =>
        /\ ret.da = [err |-> "nil", val |-> ret.a]
        /\ ret.db = [err |-> "nil", val |-> ret.b]
        /\ ret.ka = ret.kb => ret.a = ret.b

\* C13, reached: the key of 2^64 - 1 under the prefix "a/1" has been decoded
\* to 2^64 - 1.
MaxKeyRoundTrip ==
    /\ ret.op = "keys" /\ ret.a = MaxU64
    /\ ret.prefix = <<97, Slash, Zero + 1>>
    /\ ret.da.err = "nil" /\ ret.da.val = MaxU64
    /\ ret.b = U64(0) /\ ret.ka # ret.kb

\* C14: the frame of prepareBody validates and is read as its record; with
\* any one bit changed, validateChecksum is false, and Read at the key of
\* the offset the changed frame names returns the checksum error.  Read at
\* the key of the original offset returns the checksum error for a bit of
\* the payload or of the checksum, and the offset error, which Read checks
\* first, for a bit of the offset field.
ChecksumSensitivity ==
    ret.op = "flip" =>
        /\ ret.valid
        /\ ret.read = [err |-> Nil, rec |-> RecordOf(ret.offset, ret.data)]
        /\ ~ret.validFlipped
        /\ ret.readFlipped = [err |-> ErrChecksum, rec |-> ZeroRecord]
        /\ ret.readInPlace = [err |-> IF ret.bit < 8 * OffsetLen
                                       THEN ErrOffsetMismatch ELSE ErrChecksum,
                               rec |-> ZeroRecord]

\* C14, reached: a bit of the offset field has been changed in a frame with
\* a payload, and the frame does not validate.
OffsetBitFlipped ==
    /\ ret.op = "flip" /\ ret.bit < 8 * OffsetLen
    /\ ret.data = <<104, 105>>
    /\ ret.flipped # ret.frame
    /\ ~ret.validFlipped
    /\ ret.readFlipped.err = ErrChecksum

\* C17: the key of a is below the key of b in the order of strings exactly
\* when a < b, and every key is the prefix, "/" and 20 characters.
KeyOrder ==
    ret.op = "keys" =>
        /\ StrLess(ret.ka, ret.kb) <=> LtU64(ret.a, ret.b)
        /\ Len(ret.ka) = Len(ret.prefix) + 1 + 20
        /\ Len(ret.kb) = Len(ret.prefix) + 1 + 20

\* C17, reached: the key of 9 is below the key of 10.
NineBelowTen ==
    /\ ret.op = "keys" /\ ret.a = U64(9) /\ ret.b = U64(10)
    /\ StrLess(ret.ka, ret.kb)
    /\ Len(ret.ka) = Len(ret.kb)

\* C15: the puts executed have strictly increasing offsets, so no offset is
\* put twice and the offsets of one handle's successful Appends increase;
\* and an Append that returned success returned the offset of the put
\* executed last, which was its own.
AtMostOnce ==
    /\ \A i, j \in 1..Len(hist) : i < j => LtU64(hist[i].off, hist[j].off)
    /\ (ret.op = "Append" /\ ret.err = Nil) =>
          /\ Len(hist) > 0
          /\ hist[Len(hist)].off = ret.off
          /\ hist[Len(hist)].by = ret.h

\* C15, reached: a handle's second successful Append returned offset 2, its
\* first having returned offset 1, while the other handle is about to put at
\* an offset that is taken.
TwoAppendsOfOneHandle ==
    /\ Len(hist) = 2
    /\ hist[1].by = "a" /\ hist[2].by = "a"
    /\ hist[1].off = U64(1)
    /\ ret.op = "Append" /\ ret.h = "a" /\ ret.err = Nil /\ ret.off = U64(2)
    /\ pc["b"] = "put" /\ local["b"].nextOffset = U64(1)

\* The greatest offset stored, the namespace holding the records 1..n of the
\* n puts executed.
TailOffset == U64(Len(hist))

\* After a successful LastRecord during which no put was executed, w.length
\* and the record returned are at the tail; after a Conflict w.length is as
\* it was at the call and below the tail.
Recovered ==
    /\ (ret.op = "LastRecord" /\ ret.err = Nil /\ ret.quiet /\ pc[ret.h] = "idle") =>
          /\ length[ret.h] = TailOffset
          /\ ret.rec.Offset = TailOffset
    /\ (ret.op = "Append" /\ IsConflict(ret.err) /\ pc[ret.h] = "idle") =>
          /\ length[ret.h] = ret.len
          /\ LtU64(length[ret.h], TailOffset)

\* The put of an Append, within the size limit and the store answering:
\* with w.length at the tail it succeeds and returns the tail plus 1, which
\* becomes w.length; with w.length below the tail it returns a Conflict and
\* leaves w.length.
PutDecided ==
    \A h \in Handles :
        (pc[h] = "put" /\ pc'[h] = "idle") =>
            /\ ret'.h = h /\ ret'.op = "Append"
            /\ IF length[h] = TailOffset
               THEN /\ ret'.err = Nil
                    /\ ret'.off = AddU64(TailOffset, U64(1))
                    /\ length'[h] = ret'.off
               ELSE /\ LtU64(length[h], TailOffset)
                    /\ IsConflict(ret'.err)
                    /\ length'[h] = length[h]

\* C16: a successful LastRecord leaves w.length at the tail it observed, and
\* an Append whose put finds w.length at the tail (no put having been
\* executed since the listing) succeeds with the tail plus 1; an Append
\* whose w.length is below the tail, as it is after a Conflict without a
\* LastRecord, returns a Conflict.
ConflictRecovery == []Recovered /\ [][PutDecided]_vars

\* C16, reached: a handle that did not write record 1 has appended record 2:
\* its w.length was 1 at the call, which only LastRecord can have stored.
AppendAfterRecovery ==
    /\ Len(hist) = 2 /\ hist[1].by = "b" /\ hist[2].by = "a"
    /\ ret.op = "Append" /\ ret.h = "a" /\ ret.err = Nil
    /\ ret.len = U64(1) /\ ret.off = U64(2) /\ length["a"] = U64(2)

\* The greatest key under the prefix, "" if there is none.
WinningKey ==
    LET keys == {k \in DOMAIN store : HasPrefix(k, ListPrefix)}
    IN  IF keys = {} THEN <<>>
        ELSE CHOOSE k \in keys : \A j \in keys \ {k} : StrLess(j, k)

\* The part of the key after the prefix and "/" is 20 decimal digits of a
\* number below 2^64.
FixedWidthKey(key) ==
    /\ Len(key) = Len(ListPrefix) + KeyWidth
    /\ getOffsetFromKey(key).err = "nil"

IsMalformedKey(err) == err # Nil /\ err[1] = "failed to parse offset from key"

\* C18: a LastRecord whose winning key is under the prefix but not the
\* prefix, "/" and 20 digits of a 64-bit number returns the parse error and
\* leaves w.length as it was.
MalformedKeyRejected ==
    (/\ ret.op = "LastRecord" /\ ret.quiet /\ pc[ret.h] = "idle"
     /\ WinningKey # <<>> /\ ~FixedWidthKey(WinningKey)) =>
        /\ IsMalformedKey(ret.err)
        /\ length[ret.h] = ret.len

\* C19: the keys stored are the keys of the offsets 1..n, n the number of
\* objects, and the w.length of every handle is 0 or one of these offsets.
NoGaps ==
    /\ DOMAIN store = {getObjectKey(U64(i)) : i \in 1..Cardinality(DOMAIN store)}
    /\ \A h \in Handles :
          length[h] = U64(0) \/ getObjectKey(length[h]) \in DOMAIN store

\* C19, reached: records 1 and 2 are stored, the answer of the put of
\* record 1 was lost and the other handle has w.length 2 after its Append,
\* which it called with the w.length 1 of a LastRecord.
LostThenAppended ==
    /\ Cardinality(DOMAIN store) = 2
    /\ hist[1].by = "lost" /\ hist[2].by = "b"
    /\ length["a"] = U64(0) /\ length["b"] = U64(2)
    /\ ret.op = "Append" /\ ret.h = "b" /\ ret.err = Nil /\ ret.len = U64(1)

\* The body is the frame of the offset and the payload: 10 bytes and the
\* payload, the offset in the first 8, the payload, the checksum of what
\* precedes in the last 2.
FrameOf(body, offset, data) ==
    /\ Len(body) = MinFrameLen + Len(data)
    /\ Uint64(SubSeq(body, 1, OffsetLen)) = offset
    /\ SubSeq(body, OffsetLen + 1, Len(body) - 2) = data
    /\ Uint16(SubSeq(body, Len(body) - 1, Len(body))) =
          crc16Fast(SubSeq(body, 1, Len(body) - 2))

\* C20: every object stored is, at the key of the offset of a put that was
\* executed, the frame of that offset and of the payload of that put, and
\* Read of that offset returns the record.
StoredFrames ==
    /\ DOMAIN store = {getObjectKey(hist[i].off) : i \in 1..Len(hist)}
    /\ \A i \in 1..Len(hist) :
          /\ FrameOf(store[getObjectKey(hist[i].off)], hist[i].off, hist[i].data)
          /\ ReadOp(store, hist[i].off, "none")
                = [err |-> Nil, rec |-> RecordOf(hist[i].off, hist[i].data)]

\* C20, reached: the store holds a frame of 10 bytes (an empty payload) put
\* by an Append whose answer was lost, and a frame of 12 bytes.
TwoFramesStored ==
    /\ Len(hist) = 2
    /\ hist[1].by = "lost" /\ hist[1].data = <<>>
    /\ Len(store[getObjectKey(U64(1))]) = MinFrameLen
    /\ Len(store[getObjectKey(U64(2))]) = MinFrameLen + 2

=============================================================================
